---- MODULE Spec2Model ----
(***************************************************************************)
(* tushareproxy: a caching reverse proxy in front of the tushare data API. *)
(* The model covers main's cache set-up, the BadgerDB-backed CacheManager  *)
(* (Get / Set / Delete with the engine's per-entry TTL) and the            *)
(* request handler DataAPIHandler, one worker per request in flight,       *)
(* the signal-driven shutdown of the process, and package logger's lazy    *)
(* initialization behind its RWMutex.                                      *)
(*                                                                         *)
(* Six specifications share the state:                                     *)
(*   Spec       main and the request handlers, two requests side by side;  *)
(*   StoreSpec  main and the CacheManager's methods Get, Set, Delete and   *)
(*              Close, each called on its own with any argument;           *)
(*   GCSpec     main, one request at a time and the GC routine, the        *)
(*              routine scheduled fairly;                                  *)
(*   ServeSpec  main and one request after the other, the handler's steps  *)
(*              scheduled fairly;                                          *)
(*   LifeSpec   the process from start to exit: main, one request at a     *)
(*              time, the GC routine, and the shutdown on a signal;        *)
(*   LoggerSpec the goroutines that call into package logger, scheduled    *)
(*              fairly.                                                    *)
(*                                                                         *)
(* Time is a discrete wall clock counted in ticks, SubSec ticks to the     *)
(* second, so that the truncation of time.Now().Unix() to whole seconds    *)
(* (CacheEntry.Timestamp, badger's ExpiresAt) is visible next to the       *)
(* full-resolution time.Since comparison in Get.                           *)
(***************************************************************************)
EXTENDS Integers, Sequences, FiniteSets, TLC

---------------------------------------------------------------------------
(* Bounds of the model *)

\* clock ticks per second
SubSec == 2
\* the wall clock stops here: one tick past the deadline of an entry
\* stamped at clock 0
MaxClock == 3

---------------------------------------------------------------------------
(* Program constants *)

\* cfg.Cache.TTLDays, the configured retention; the model counts it in
\* seconds instead of days
TTLSecs == 1

StatusOK == 200
StatusBadRequest == 400
StatusMethodNotAllowed == 405
StatusInternalServerError == 500

Workers == {1, 2}
Methods == {"POST", "GET"}
Payloads == {"p1", "p2"}
NoPayload == "-"

\* A body is a byte string; the model keeps what the handler can tell
\* about it: its form, and for a JSON object its code / msg / data members.
Body(form, code, msg, data) == [form |-> form, code |-> code, msg |-> msg, data |-> data]
NoBody == Body("none", 0, "", 0)

\* Forms of a body:
\*   none        nil, no bytes (the zero value of the handler's response)
\*   empty       zero bytes
\*   garbage     bytes that are no JSON document
\*   object      {"code":<code>,"msg":<msg>,"data":<data>}
\*   nocode      {"data":<data>}                 (no code member)
\*   strcode     {"code":"0","data":<data>}      (code is a JSON string)
\*   envelope    {"code":<code>,"msg":<msg>}     (json.Marshal of TushareAPIResult)
\* What upstream answers with: <<status, body>>
UpstreamAnswers ==
    { <<200, Body("object", 0, "", 1)>>,
      <<200, Body("object", 0, "", 2)>>,
      <<200, Body("object", 40001, "token invalid", 0)>>,
      <<200, Body("garbage", 0, "", 0)>>,
      <<201, Body("object", 0, "", 1)>>,
      <<500, Body("object", 0, "", 1)>> }

\* ttl := time.Duration(ttlDays) * 24 * time.Hour, in clock ticks
ttl == TTLSecs * SubSec

---------------------------------------------------------------------------
(* Pure functions *)

\* The two payloads of the model stand for one JSON object written with
\* its members in two different orders: Canonical is what a normalizing
\* reader would make of them.
Canonical(requestBody) == IF requestBody \in Payloads THEN "p1" ELSE requestBody

\* GenerateKey hashing the normalized payload
GenerateKeyNormalized(requestBody) == <<"sha256", Canonical(requestBody)>>

\* CacheManager.GenerateKey: hex(sha256(requestBody)); the digest is
\* modelled as an injective tag of the bytes it hashes.
GenerateKey(requestBody) == <<"sha256", requestBody>>

Keys == { GenerateKey(p) : p \in Payloads }

\* len(response)
BodyLen(b) == IF b.form \in {"empty", "none"} THEN 0 ELSE 1

\* json.Unmarshal(response, &result) into TushareAPIResult{Code int; Msg string}:
\* an error for bytes that are no JSON or a code of the wrong JSON type,
\* the zero value of Code when the object has no code member.
JsonUnmarshalResult(b) ==
    CASE b.form \in {"object", "envelope"} -> [err |-> FALSE, Code |-> b.code, Msg |-> b.msg]
      [] b.form = "nocode"                 -> [err |-> FALSE, Code |-> 0, Msg |-> ""]
      [] OTHER                             -> [err |-> TRUE, Code |-> 0, Msg |-> ""]

\* ShouldCache without the check of the envelope's code
ShouldCacheIgnoringCode(statusCode, response) ==
    statusCode = StatusOK /\ BodyLen(response) > 0

\* ShouldCache without the check of the upstream status
ShouldCacheAnyStatus(statusCode, response) ==
    /\ BodyLen(response) > 0
    /\ ~JsonUnmarshalResult(response).err
    /\ JsonUnmarshalResult(response).Code = 0

\* ShouldCache with the test of the code inverted
ShouldCacheInverted(statusCode, response) ==
    /\ statusCode = StatusOK
    /\ BodyLen(response) > 0
    /\ ~JsonUnmarshalResult(response).err
    /\ JsonUnmarshalResult(response).Code # 0

\* DataAPIHandler, lines 286-301: the shouldCache decision
ShouldCache(statusCode, response) ==
    /\ statusCode = StatusOK
    /\ BodyLen(response) > 0
    /\ ~JsonUnmarshalResult(response).err
    /\ JsonUnmarshalResult(response).Code = 0

\* sendErrorResponse writing its status code as the transport status
SendErrorResponseWithStatus(message, statusCode) ==
    [wrote |-> TRUE, status |-> statusCode, body |-> Body("envelope", statusCode, message, 0)]

\* sendErrorResponse: transport status fixed to 200, body = json.Marshal of
\* TushareAPIResult{Code: statusCode, Msg: message}
SendErrorResponse(message, statusCode) ==
    [wrote |-> TRUE, status |-> StatusOK, body |-> Body("envelope", statusCode, message, 0)]

\* json.Marshal(entry) in Set: the serialized CacheEntry, field by field
MarshalEntry(requestBody, responseBody, statusCode, timestamp) ==
    << <<"request_body", requestBody>>, <<"response_body", responseBody>>,
       <<"status_code", statusCode>>, <<"timestamp", timestamp>> >>

\* json.Unmarshal(val, &entry) in Get
UnmarshalEntry(val) ==
    [RequestBody |-> val[1][2], ResponseBody |-> val[2][2],
     StatusCode |-> val[3][2], Timestamp |-> val[4][2]]

\* time.Now().Unix(): the wall clock truncated to whole seconds
Unix(now) == now \div SubSec

\* badger.NewEntry(key, data).WithTTL(cm.ttl): ExpiresAt = time.Now().Add(ttl).Unix()
WithTTL(now) == Unix(now + ttl)

\* an engine that hides an item one second before its ExpiresAt
ItemExpiredEarly(item, now) == item.expiresAt <= Unix(now) + 1

\* badger txn.Get: an item whose ExpiresAt is reached reads as ErrKeyNotFound
ItemExpired(item, now) == item.expiresAt <= Unix(now)

\* the expiry check of Get against twice the retention
EntryExpiredLate(entry, now) == now - entry.Timestamp * SubSec > 2 * ttl

\* Get, line 93: time.Since(time.Unix(entry.Timestamp, 0)) > cm.ttl
EntryExpired(entry, now) == now - entry.Timestamp * SubSec > ttl

---------------------------------------------------------------------------
(* State *)

VARIABLES
    clock,         \* wall clock, in ticks
    cfgEnabled,    \* cfg.Cache.Enabled
    mainPc,        \* main: "boot", "serving", or "fatal" (logger.Fatal exited)
    cacheManager,  \* the api package's global: "nil" or "cm"
    gcStarted,     \* StartGCRoutine has launched the reclamation goroutine
    db,            \* the BadgerDB: key -> item [present, val, expiresAt]
    wk,            \* per worker: the request it is handling
    dbHandle,      \* cm.db: "nil", "open", or "closed" (badger's DB.Close ran)
    ret,           \* what the last direct call of a CacheManager method returned
    gcTick,        \* the GC routine's ticker channel holds a tick
    gcLog,         \* what the last two calls of RunGC returned, oldest first
    sdPc,          \* the signal goroutine of setupGracefulShutdown: where it is
    stopRes,       \* what httpServer.Stop returned: "none" yet, "nil", "error"
    proc,          \* the process: "up", or how it exited ("exit0", "exit1")
    lg             \* package logger: its mutex, its global, its callers

\* the state of the shutdown
sdVars == <<sdPc, stopRes, proc>>

vars == <<clock, cfgEnabled, mainPc, cacheManager, gcStarted, db, wk,
          dbHandle, ret, gcTick, gcLog, sdPc, stopRes, proc, lg>>

\* a key the store holds no record for
NoItem == [present |-> FALSE, val |-> << >>, expiresAt |-> 0]

NoUp == [called |-> FALSE, err |-> FALSE, status |-> 0, body |-> NoBody]
NoOut == [wrote |-> FALSE, status |-> 0, body |-> NoBody]

\* A worker with no request: the handler's locals at their zero values.
\* method .. out are the history of the request: what it was given, which
\* CacheManager methods it called (ops), what Get ("hit", "miss", "expired",
\* "error"), the upstream call and Set ("ok", "failed") returned, and what
\* it wrote to the client.
IdleWorker ==
    [pc |-> "idle", body |-> NoPayload, cacheKey |-> <<>>, response |-> NoBody,
     statusCode |-> 0, isFromCache |-> FALSE, timestamp |-> 0,
     method |-> "", readOK |-> FALSE, ops |-> {}, getRes |-> "none", up |-> NoUp,
     setRes |-> "none", out |-> NoOut]

\* the zero value of CacheEntry
NoEntry == [RequestBody |-> NoPayload, ResponseBody |-> NoBody, StatusCode |-> 0, Timestamp |-> 0]

\* no CacheManager method has been called directly yet.  A call leaves its
\* name, its key, the state of cm.db it was made in, the error of its
\* badger transaction (dbErr), and what it returned: (entry, found) for Get,
\* the error ("nil", "error", or "panic" for a nil dereference) for the
\* others.  Of a call of Set it keeps the CacheEntry that Set built (entry)
\* and whether the key had a record before (found); of a call of Get, the
\* methods that Get called in turn (ops).
NoRet ==
    [op |-> "none", key |-> << >>, handle |-> "nil", ops |-> {}, dbErr |-> "nil",
     found |-> FALSE, entry |-> NoEntry, err |-> "nil"]

\* the goroutines that call into package logger
Callers == {1, 2}

\* package logger as the program is loaded: globalLogger nil, initialized
\* false, mu free, init() not yet run.  mu is a sync.RWMutex: readers holds
\* the goroutines inside RLock .. RUnlock, writer the one inside Lock ..
\* Unlock, pending those that have called Lock and wait for it.  Of each
\* caller: the function it called (fn), where it is (pc), and what
\* GetLogger returned to it last (res).
LoggerStart ==
    [loaded |-> FALSE, globalLogger |-> "nil", initialized |-> FALSE,
     readers |-> {}, writer |-> 0, pending |-> {},
     fn  |-> [g \in Callers |-> "none"],
     pc  |-> [g \in Callers |-> "idle"],
     res |-> [g \in Callers |-> "none"]]

Init ==
    /\ clock = 0
    /\ cfgEnabled \in BOOLEAN
    /\ mainPc = "boot"
    /\ cacheManager = "nil"
    /\ gcStarted = FALSE
    /\ db = [k \in Keys |-> NoItem]
    /\ wk = [w \in Workers |-> IdleWorker]
    /\ dbHandle = "nil"
    /\ ret = NoRet
    /\ gcTick = FALSE
    /\ gcLog = <<"none", "none">>
    /\ sdPc = "wait"
    /\ stopRes = "none"
    /\ proc = "up"
    /\ lg = LoggerStart

---------------------------------------------------------------------------
(* main *)

\* main installing the cache whatever cfg.Cache.Enabled says
MainAlwaysCache(openOK) ==
    /\ mainPc = "boot"
    /\ IF openOK
         THEN /\ dbHandle' = "open"
              /\ cacheManager' = "cm"
              /\ gcStarted' = TRUE
              /\ mainPc' = "serving"
         ELSE /\ mainPc' = "fatal"
              /\ UNCHANGED <<dbHandle, cacheManager, gcStarted>>
    /\ UNCHANGED <<clock, cfgEnabled, db, wk, ret, gcTick, gcLog,
                 sdVars, lg>>

\* main logging the open failure and going on to serve
MainContinuesOnOpenFailure(openOK) ==
    /\ mainPc = "boot"
    /\ IF cfgEnabled /\ openOK
         THEN /\ dbHandle' = "open"
              /\ cacheManager' = "cm"
              /\ gcStarted' = TRUE
         ELSE UNCHANGED <<dbHandle, cacheManager, gcStarted>>
    /\ mainPc' = "serving"
    /\ UNCHANGED <<clock, cfgEnabled, db, wk, ret, gcTick, gcLog,
                 sdVars, lg>>

\* main, lines 125-152: with caching enabled open the store (fatal on
\* failure), install the manager, start the GC routine; then serve.
Main(openOK) ==
    /\ mainPc = "boot"
    /\ IF cfgEnabled
         THEN IF openOK
                THEN /\ dbHandle' = "open"
                     /\ cacheManager' = "cm"
                     /\ gcStarted' = TRUE
                     /\ mainPc' = "serving"
                ELSE /\ mainPc' = "fatal"
                     /\ UNCHANGED <<dbHandle, cacheManager, gcStarted>>
         ELSE /\ mainPc' = "serving"
              /\ UNCHANGED <<dbHandle, cacheManager, gcStarted>>
    /\ UNCHANGED <<clock, cfgEnabled, db, wk, ret, gcTick, gcLog,
                 sdVars, lg>>

\* the wall clock advances
Tick ==
    /\ clock < MaxClock
    /\ clock' = clock + 1
    /\ UNCHANGED <<cfgEnabled, mainPc, cacheManager, gcStarted, db, wk, dbHandle, ret, gcTick, gcLog,
                 sdVars, lg>>

---------------------------------------------------------------------------
(* DataAPIHandler, one action per blocking step *)

Serving == mainPc = "serving"

\* Emit with the transport status fixed to 200
EmitStatusOK(r) ==
    [r EXCEPT !.pc = "done",
              !.out = [wrote |-> TRUE, status |-> StatusOK, body |-> r.response]]

\* lines 315-318: w.WriteHeader(statusCode); w.Write(response); the handler
\* returns.  Applied to the worker's record once response and statusCode
\* are final.
Emit(r) ==
    [r EXCEPT !.pc = "done",
              !.out = [wrote |-> TRUE, status |-> r.statusCode, body |-> r.response]]

\* Begin without the return after the failed body read
BeginReadErrorFallsThrough(w, method, readOK, payload) ==
    /\ Serving
    /\ wk[w].pc \in {"idle", "done"}
    /\ wk' = [wk EXCEPT ![w] =
         IF method # "POST"
           THEN [IdleWorker EXCEPT !.pc = "done", !.method = method,
                   !.out = SendErrorResponse("method not allowed", StatusMethodNotAllowed)]
         ELSE [IdleWorker EXCEPT !.pc = IF cacheManager # "nil" THEN "lookup" ELSE "forward",
                   !.method = method, !.readOK = readOK, !.body = payload,
                   !.out = IF readOK THEN NoOut
                           ELSE SendErrorResponse("read body failed", StatusBadRequest)]]
    /\ UNCHANGED <<clock, cfgEnabled, mainPc, cacheManager, gcStarted, db, dbHandle, ret, gcTick, gcLog,
                 sdVars, lg>>

\* lines 228-256: method check, body read, and the choice of path (the
\* messages of the error envelopes are given in English)
Begin(w, method, readOK, payload) ==
    /\ Serving
    /\ wk[w].pc \in {"idle", "done"}
    /\ wk' = [wk EXCEPT ![w] =
         IF method # "POST"
           THEN [IdleWorker EXCEPT !.pc = "done", !.method = method,
                   !.out = SendErrorResponse("method not allowed", StatusMethodNotAllowed)]
         ELSE IF ~readOK
           THEN [IdleWorker EXCEPT !.pc = "done", !.method = method,
                   !.out = SendErrorResponse("read body failed", StatusBadRequest)]
         ELSE [IdleWorker EXCEPT !.pc = IF cacheManager # "nil" THEN "lookup" ELSE "forward",
                   !.method = method, !.readOK = TRUE, !.body = payload]]
    /\ UNCHANGED <<clock, cfgEnabled, mainPc, cacheManager, gcStarted, db, dbHandle, ret, gcTick, gcLog,
                 sdVars, lg>>

\* Lookup answering a failed read with the error envelope
LookupFailsRequest(w, viewErr) ==
    /\ wk[w].pc = "lookup"
    /\ LET key   == GenerateKey(wk[w].body)
           item  == db[key]
           found == item.present /\ ~ItemExpired(item, clock)
           entry == UnmarshalEntry(item.val)
           base  == [wk[w] EXCEPT !.cacheKey = key, !.ops = @ \cup {"GenerateKey", "Get"}]
       IN wk' = [wk EXCEPT ![w] =
            IF viewErr
              THEN [base EXCEPT !.pc = "done", !.getRes = "error",
                      !.out = SendErrorResponse("cache read failed", StatusInternalServerError)]
            ELSE IF ~found
              THEN [base EXCEPT !.pc = "forward", !.getRes = "miss"]
            ELSE IF EntryExpired(entry, clock)
              THEN [base EXCEPT !.pc = "getDelete", !.getRes = "expired"]
            ELSE Emit([base EXCEPT !.response = entry.ResponseBody,
                                   !.statusCode = entry.StatusCode, !.isFromCache = TRUE,
                                   !.getRes = "hit"])]
    /\ UNCHANGED <<clock, cfgEnabled, mainPc, cacheManager, gcStarted, db, dbHandle, ret, gcTick, gcLog,
                 sdVars, lg>>

\* Lookup stamping the entry it serves with the time of the read
LookupRefreshesEntry(w, viewErr) ==
    /\ wk[w].pc = "lookup"
    /\ LET key   == GenerateKey(wk[w].body)
           item  == db[key]
           found == item.present /\ ~ItemExpired(item, clock)
           entry == UnmarshalEntry(item.val)
           hit   == ~viewErr /\ found /\ ~EntryExpired(entry, clock)
           base  == [wk[w] EXCEPT !.cacheKey = key, !.ops = @ \cup {"GenerateKey", "Get"}]
       IN /\ wk' = [wk EXCEPT ![w] =
                IF viewErr
                  THEN [base EXCEPT !.pc = "forward", !.getRes = "error"]
                ELSE IF ~found
                  THEN [base EXCEPT !.pc = "forward", !.getRes = "miss"]
                ELSE IF EntryExpired(entry, clock)
                  THEN [base EXCEPT !.pc = "getDelete", !.getRes = "expired"]
                ELSE Emit([base EXCEPT !.response = entry.ResponseBody,
                                       !.statusCode = entry.StatusCode, !.isFromCache = TRUE,
                                       !.getRes = "hit"])]
          /\ db' = IF hit
                     THEN [db EXCEPT ![key].val =
                             MarshalEntry(entry.RequestBody, entry.ResponseBody,
                                          entry.StatusCode, Unix(clock))]
                     ELSE db
    /\ UNCHANGED <<clock, cfgEnabled, mainPc, cacheManager, gcStarted, dbHandle, ret, gcTick, gcLog,
                 sdVars, lg>>

\* Lookup reading one key for every payload
LookupSharedKey(w, viewErr) ==
    /\ wk[w].pc = "lookup"
    /\ LET key   == GenerateKey("p1")
           item  == db[key]
           found == item.present /\ ~ItemExpired(item, clock)
           entry == UnmarshalEntry(item.val)
           base  == [wk[w] EXCEPT !.cacheKey = key, !.ops = @ \cup {"GenerateKey", "Get"}]
       IN wk' = [wk EXCEPT ![w] =
            IF viewErr
              THEN [base EXCEPT !.pc = "forward", !.getRes = "error"]
            ELSE IF ~found
              THEN [base EXCEPT !.pc = "forward", !.getRes = "miss"]
            ELSE IF EntryExpired(entry, clock)
              THEN [base EXCEPT !.pc = "getDelete", !.getRes = "expired"]
            ELSE Emit([base EXCEPT !.response = entry.ResponseBody,
                                   !.statusCode = entry.StatusCode, !.isFromCache = TRUE,
                                   !.getRes = "hit"])]
    /\ UNCHANGED <<clock, cfgEnabled, mainPc, cacheManager, gcStarted, db, dbHandle, ret, gcTick, gcLog,
                 sdVars, lg>>

\* lines 257-267 with CacheManager.Get, lines 69-94 and 99-100: the key,
\* the db.View read, the decoding, the expiry check.  viewErr is a store
\* or decoding error other than ErrKeyNotFound.
Lookup(w, viewErr) ==
    /\ wk[w].pc = "lookup"
    /\ LET key   == GenerateKey(wk[w].body)
           item  == db[key]
           found == item.present /\ ~ItemExpired(item, clock)
           entry == UnmarshalEntry(item.val)
           base  == [wk[w] EXCEPT !.cacheKey = key, !.ops = @ \cup {"GenerateKey", "Get"}]
       IN wk' = [wk EXCEPT ![w] =
            IF viewErr
              THEN [base EXCEPT !.pc = "forward", !.getRes = "error"]
            ELSE IF ~found
              THEN [base EXCEPT !.pc = "forward", !.getRes = "miss"]
            ELSE IF EntryExpired(entry, clock)
              THEN [base EXCEPT !.pc = "getDelete", !.getRes = "expired"]
            ELSE Emit([base EXCEPT !.response = entry.ResponseBody,
                                   !.statusCode = entry.StatusCode, !.isFromCache = TRUE,
                                   !.getRes = "hit"])]
    /\ UNCHANGED <<clock, cfgEnabled, mainPc, cacheManager, gcStarted, db, dbHandle, ret, gcTick, gcLog,
                 sdVars, lg>>

\* GetDelete sending the request back to the lookup when the Delete failed
GetDeleteRetries(w, ok) ==
    /\ wk[w].pc = "getDelete"
    /\ db' = IF ok THEN [db EXCEPT ![wk[w].cacheKey] = NoItem] ELSE db
    /\ wk' = [wk EXCEPT ![w].pc = IF ok THEN "forward" ELSE "lookup",
                        ![w].ops = @ \cup {"Delete"}]
    /\ UNCHANGED <<clock, cfgEnabled, mainPc, cacheManager, gcStarted, dbHandle, ret, gcTick, gcLog,
                 sdVars, lg>>

\* Get, lines 95-96, with CacheManager.Delete: the expired entry's key is
\* deleted in a transaction of its own; a failure is logged and dropped.
GetDelete(w, ok) ==
    /\ wk[w].pc = "getDelete"
    /\ db' = IF ok THEN [db EXCEPT ![wk[w].cacheKey] = NoItem] ELSE db
    /\ wk' = [wk EXCEPT ![w].pc = "forward", ![w].ops = @ \cup {"Delete"}]
    /\ UNCHANGED <<clock, cfgEnabled, mainPc, cacheManager, gcStarted, dbHandle, ret, gcTick, gcLog,
                 sdVars, lg>>

\* ForwardFailed without the return: the handler goes on to cache what it has
ForwardFailedNoReturn(r) ==
    [r EXCEPT !.pc = "set",
              !.up = [called |-> TRUE, err |-> TRUE, status |-> 0, body |-> NoBody]]

\* lines 277-281: the upstream call returned an error; the error envelope
\* is sent and the handler returns
ForwardFailed(r) ==
    [r EXCEPT !.pc = "done",
              !.up = [called |-> TRUE, err |-> TRUE, status |-> 0, body |-> NoBody],
              !.out = SendErrorResponse("forward failed", StatusInternalServerError)]

\* lines 271-311 up to the call of Set, with forwardRawRequestToTushareAPI:
\* a transport error ends the request with the error envelope; an answer
\* is kept in response / statusCode and judged by ShouldCache.
Forward(w, err, status, body) ==
    /\ wk[w].pc = "forward"
    /\ IF err
         THEN wk' = [wk EXCEPT ![w] = ForwardFailed(@)]
         ELSE LET r == [wk[w] EXCEPT
                            !.response = body, !.statusCode = status,
                            !.up = [called |-> TRUE, err |-> FALSE,
                                    status |-> status, body |-> body]]
              IN wk' = [wk EXCEPT ![w] =
                   IF cacheManager # "nil" /\ ShouldCache(status, body)
                     THEN [r EXCEPT !.pc = "set"]
                     ELSE Emit(r)]
    /\ UNCHANGED <<clock, cfgEnabled, mainPc, cacheManager, gcStarted, db, dbHandle, ret, gcTick, gcLog,
                 sdVars, lg>>

\* CacheManager.Set, lines 105-115: the entry is stamped and serialized
SetEntry(w) ==
    /\ wk[w].pc = "set"
    /\ wk' = [wk EXCEPT ![w].pc = "setCommit", ![w].timestamp = Unix(clock),
                        ![w].ops = @ \cup {"Set"}]
    /\ UNCHANGED <<clock, cfgEnabled, mainPc, cacheManager, gcStarted, db, dbHandle, ret, gcTick, gcLog,
                 sdVars, lg>>

\* SetCommit answering a failed write with the error envelope
SetCommitFailsRequest(w, ok) ==
    /\ wk[w].pc = "setCommit"
    /\ db' = IF ok
               THEN [db EXCEPT ![wk[w].cacheKey] =
                       [present |-> TRUE,
                        val |-> MarshalEntry(wk[w].body, wk[w].response,
                                             wk[w].statusCode, wk[w].timestamp),
                        expiresAt |-> WithTTL(clock)]]
               ELSE db
    /\ wk' = [wk EXCEPT ![w] =
                IF ok THEN Emit([@ EXCEPT !.setRes = "ok", !.timestamp = 0])
                      ELSE [@ EXCEPT !.pc = "done", !.setRes = "failed", !.timestamp = 0,
                              !.out = SendErrorResponse("set failed", StatusInternalServerError)]]
    /\ UNCHANGED <<clock, cfgEnabled, mainPc, cacheManager, gcStarted, dbHandle, ret, gcTick, gcLog,
                 sdVars, lg>>

\* SetCommit leaving a record that is already there: the first writer wins
SetCommitIfAbsent(w, ok) ==
    /\ wk[w].pc = "setCommit"
    /\ db' = IF ok /\ ~db[wk[w].cacheKey].present
               THEN [db EXCEPT ![wk[w].cacheKey] =
                       [present |-> TRUE,
                        val |-> MarshalEntry(wk[w].body, wk[w].response,
                                             wk[w].statusCode, wk[w].timestamp),
                        expiresAt |-> WithTTL(clock)]]
               ELSE db
    /\ wk' = [wk EXCEPT ![w] = Emit([@ EXCEPT !.setRes = IF ok THEN "ok" ELSE "failed",
                                              !.timestamp = 0])]
    /\ UNCHANGED <<clock, cfgEnabled, mainPc, cacheManager, gcStarted, dbHandle, ret, gcTick, gcLog,
                 sdVars, lg>>

\* CacheManager.Set, lines 117-132: the db.Update transaction writes the
\* record with the engine TTL, or fails and leaves the store as it was
SetCommit(w, ok) ==
    /\ wk[w].pc = "setCommit"
    /\ db' = IF ok
               THEN [db EXCEPT ![wk[w].cacheKey] =
                       [present |-> TRUE,
                        val |-> MarshalEntry(wk[w].body, wk[w].response,
                                             wk[w].statusCode, wk[w].timestamp),
                        expiresAt |-> WithTTL(clock)]]
               ELSE db
    /\ wk' = [wk EXCEPT ![w] = Emit([@ EXCEPT !.setRes = IF ok THEN "ok" ELSE "failed",
                                              !.timestamp = 0])]
    /\ UNCHANGED <<clock, cfgEnabled, mainPc, cacheManager, gcStarted, dbHandle, ret, gcTick, gcLog,
                 sdVars, lg>>


---------------------------------------------------------------------------
(* Specification *)

Next ==
    \/ \E openOK \in BOOLEAN : Main(openOK)
    \/ Tick
    \/ \E w \in Workers, m \in Methods, r \in BOOLEAN, p \in Payloads : Begin(w, m, r, p)
    \/ \E w \in Workers, e \in BOOLEAN : Lookup(w, e)
    \/ \E w \in Workers, ok \in BOOLEAN : GetDelete(w, ok)
    \/ \E w \in Workers, e \in BOOLEAN, a \in UpstreamAnswers : Forward(w, e, a[1], a[2])
    \/ \E w \in Workers : SetEntry(w)
    \/ \E w \in Workers, ok \in BOOLEAN : SetCommit(w, ok)

Spec == Init /\ [][Next]_vars

---------------------------------------------------------------------------
(* The CacheManager's methods, each called on its own as one action *)

\* the answers the handler passes on to Set
CacheableAnswers == { a \in UpstreamAnswers : ShouldCache(a[1], a[2]) }

\* how long a call of Set may take between stamping the entry and
\* committing it, in ticks
SetDelays == {0, 1}

\* what db.Update(txn.Delete(key)) may return
UpdateErrs == {"nil", "ErrKeyNotFound", "error"}

\* ErrKeyNotFound can only be the answer for a key the engine does not show
MayReturn(updateErr, store, key, now) ==
    updateErr = "ErrKeyNotFound" => ~(store[key].present /\ ~ItemExpired(store[key], now))

\* Delete reporting ErrKeyNotFound like any other error
DeleteResultStrict(updateErr) == IF updateErr # "nil" THEN "error" ELSE "nil"

\* Delete, lines 141-146: err != nil && err != badger.ErrKeyNotFound is
\* the only failure
DeleteResult(updateErr) ==
    IF updateErr # "nil" /\ updateErr # "ErrKeyNotFound" THEN "error" ELSE "nil"

\* a transaction that removes every record of the store
DbDeleteAll(store, key, updateErr) ==
    IF updateErr = "nil" THEN [k \in Keys |-> NoItem] ELSE store

\* Delete, lines 137-139: the transaction removes the key's record when
\* it commits
DbDelete(store, key, updateErr) ==
    IF updateErr = "nil" THEN [store EXCEPT ![key] = NoItem] ELSE store

\* CacheManager.Get, lines 69-101, the whole call: the read, the expiry
\* check and the Delete of an expired entry (its error dropped)
Get(key, viewErr, updateErr) ==
    /\ dbHandle = "open"
    /\ MayReturn(updateErr, db, key, clock)
    /\ LET item    == db[key]
           found   == ~viewErr /\ item.present /\ ~ItemExpired(item, clock)
           entry   == UnmarshalEntry(item.val)
           expired == found /\ EntryExpired(entry, clock)
       IN /\ db' = IF expired THEN DbDelete(db, key, updateErr) ELSE db
          /\ ret' = [op |-> "Get", key |-> key, handle |-> dbHandle,
                     ops |-> IF expired THEN {"Delete"} ELSE {},
                     dbErr |-> IF viewErr THEN "error" ELSE IF expired THEN updateErr ELSE "nil",
                     found |-> found /\ ~expired,
                     entry |-> IF found /\ ~expired THEN entry ELSE NoEntry,
                     err |-> "nil"]
    /\ UNCHANGED <<clock, cfgEnabled, mainPc, cacheManager, gcStarted, wk, dbHandle, gcTick, gcLog,
                 sdVars, lg>>

\* Set keeping the timestamp of the entry it replaces
SetKeepsTimestamp(key, requestBody, responseBody, statusCode, delay, ok) ==
    /\ dbHandle = "open"
    /\ clock + delay <= MaxClock
    /\ clock' = clock + delay
    /\ db' = IF ok
               THEN [db EXCEPT ![key] =
                       [present |-> TRUE,
                        val |-> MarshalEntry(requestBody, responseBody, statusCode,
                                             IF db[key].present
                                               THEN UnmarshalEntry(db[key].val).Timestamp
                                               ELSE Unix(clock)),
                        expiresAt |-> WithTTL(clock + delay)]]
               ELSE db
    /\ ret' = [op |-> "Set", key |-> key, handle |-> dbHandle, ops |-> {},
               dbErr |-> IF ok THEN "nil" ELSE "error", found |-> db[key].present,
               entry |-> [RequestBody |-> requestBody, ResponseBody |-> responseBody,
                          StatusCode |-> statusCode, Timestamp |-> Unix(clock)],
               err |-> IF ok THEN "nil" ELSE "error"]
    /\ UNCHANGED <<cfgEnabled, mainPc, cacheManager, gcStarted, wk, dbHandle, gcTick, gcLog,
                 sdVars, lg>>

\* CacheManager.Set, lines 104-133, the whole call: the entry is stamped
\* with time.Now().Unix() (line 109); delay ticks later db.Update writes
\* it with the engine TTL (lines 117-120), or fails
Set(key, requestBody, responseBody, statusCode, delay, ok) ==
    /\ dbHandle = "open"
    /\ clock + delay <= MaxClock
    /\ clock' = clock + delay
    /\ db' = IF ok
               THEN [db EXCEPT ![key] =
                       [present |-> TRUE,
                        val |-> MarshalEntry(requestBody, responseBody, statusCode, Unix(clock)),
                        expiresAt |-> WithTTL(clock + delay)]]
               ELSE db
    /\ ret' = [op |-> "Set", key |-> key, handle |-> dbHandle, ops |-> {},
               dbErr |-> IF ok THEN "nil" ELSE "error", found |-> db[key].present,
               entry |-> [RequestBody |-> requestBody, ResponseBody |-> responseBody,
                          StatusCode |-> statusCode, Timestamp |-> Unix(clock)],
               err |-> IF ok THEN "nil" ELSE "error"]
    /\ UNCHANGED <<cfgEnabled, mainPc, cacheManager, gcStarted, wk, dbHandle, gcTick, gcLog,
                 sdVars, lg>>

\* CacheManager.Delete, lines 136-147
Delete(key, updateErr) ==
    /\ dbHandle = "open"
    /\ MayReturn(updateErr, db, key, clock)
    /\ db' = DbDelete(db, key, updateErr)
    /\ ret' = [op |-> "Delete", key |-> key, handle |-> dbHandle, ops |-> {}, dbErr |-> updateErr,
               found |-> FALSE, entry |-> NoEntry, err |-> DeleteResult(updateErr)]
    /\ UNCHANGED <<clock, cfgEnabled, mainPc, cacheManager, gcStarted, wk, dbHandle, gcTick, gcLog,
                 sdVars, lg>>

\* Close without the test of cm.db: the nil handle is dereferenced
CloseDBUnguarded(handle, closeErr) ==
    CASE handle = "nil"  -> [err |-> "panic", handle |-> "nil"]
      [] handle = "open" -> [err |-> IF closeErr THEN "error" ELSE "nil", handle |-> "closed"]
      [] OTHER           -> [err |-> "nil", handle |-> "closed"]

\* CacheManager.Close, lines 54-60: nothing to do without a handle; else
\* badger's DB.Close, which closes once (closeOnce) and returns nil on
\* every later call.  closeErr: the one real close fails.
CloseDB(handle, closeErr) ==
    CASE handle = "nil"  -> [err |-> "nil", handle |-> "nil"]
      [] handle = "open" -> [err |-> IF closeErr THEN "error" ELSE "nil", handle |-> "closed"]
      [] OTHER           -> [err |-> "nil", handle |-> "closed"]

\* a call of cm.Close()
Close(closeErr) ==
    /\ dbHandle' = CloseDB(dbHandle, closeErr).handle
    /\ ret' = [op |-> "Close", key |-> << >>, handle |-> dbHandle, ops |-> {},
               dbErr |-> CloseDB(dbHandle, closeErr).err, found |-> FALSE,
               entry |-> NoEntry, err |-> CloseDB(dbHandle, closeErr).err]
    /\ UNCHANGED <<clock, cfgEnabled, mainPc, cacheManager, gcStarted, db, wk, gcTick, gcLog,
                 sdVars, lg>>

StoreNext ==
    \/ \E openOK \in BOOLEAN : Main(openOK)
    \/ Tick
    \/ \E p \in Payloads, e \in BOOLEAN, u \in UpdateErrs : Get(GenerateKey(p), e, u)
    \/ \E p \in Payloads, a \in CacheableAnswers, d \in SetDelays, ok \in BOOLEAN :
          Set(GenerateKey(p), p, a[2], a[1], d, ok)
    \/ \E p \in Payloads, u \in UpdateErrs : Delete(GenerateKey(p), u)
    \/ \E closeErr \in BOOLEAN : Close(closeErr)

\* the store under arbitrary callers
StoreSpec == Init /\ [][StoreNext]_vars

---------------------------------------------------------------------------
(* The GC routine *)

\* what db.RunValueLogGC(0.5) may return
GCErrs == {"nil", "ErrNoRewrite", "error"}

\* the engine reclaiming the records it no longer shows
Reclaim(store, now) ==
    [k \in Keys |-> IF store[k].present /\ ItemExpired(store[k], now) THEN NoItem ELSE store[k]]

\* time.NewTicker(5 * time.Minute): the ticker fires; a tick that finds
\* the channel full is dropped
GCTick ==
    /\ gcStarted
    /\ ~gcTick
    /\ gcTick' = TRUE
    /\ UNCHANGED <<clock, cfgEnabled, mainPc, cacheManager, gcStarted, db, wk, dbHandle, ret, gcLog,
                 sdVars, lg>>

\* a routine that returns from its loop when RunGC fails
GCRoutineStopsOnError(gcErr) ==
    /\ gcStarted
    /\ gcTick
    /\ gcTick' = FALSE
    /\ gcLog' = <<gcLog[2], gcErr>>
    /\ gcStarted' = (gcErr \in {"nil", "ErrNoRewrite"})
    /\ db' = IF gcErr = "nil" THEN Reclaim(db, clock) ELSE db
    /\ UNCHANGED <<clock, cfgEnabled, mainPc, cacheManager, wk, dbHandle, ret,
                 sdVars, lg>>

\* StartGCRoutine, lines 180-191, with RunGC, lines 163-177: one turn of
\* for range ticker.C { cm.RunGC() }.  RunGC's return value is dropped
\* and the loop waits for the next tick.
GCRoutine(gcErr) ==
    /\ gcStarted
    /\ gcTick
    /\ gcTick' = FALSE
    /\ gcLog' = <<gcLog[2], gcErr>>
    /\ db' = IF gcErr = "nil" THEN Reclaim(db, clock) ELSE db
    /\ UNCHANGED <<clock, cfgEnabled, mainPc, cacheManager, gcStarted, wk, dbHandle, ret,
                 sdVars, lg>>

\* one request at a time next to the GC routine
GCNext ==
    \/ \E openOK \in BOOLEAN : Main(openOK)
    \/ Tick
    \/ GCTick
    \/ \E gcErr \in GCErrs : GCRoutine(gcErr)
    \/ \E m \in Methods, r \in BOOLEAN, p \in Payloads : Begin(1, m, r, p)
    \/ \E e \in BOOLEAN : Lookup(1, e)
    \/ \E ok \in BOOLEAN : GetDelete(1, ok)
    \/ \E e \in BOOLEAN, a \in UpstreamAnswers : Forward(1, e, a[1], a[2])
    \/ SetEntry(1)
    \/ \E ok \in BOOLEAN : SetCommit(1, ok)

\* the goroutine is scheduled whenever a tick is waiting in its channel
GCFairness == WF_vars(\E gcErr \in GCErrs : GCRoutine(gcErr))

GCSpec == Init /\ [][GCNext]_vars /\ GCFairness

---------------------------------------------------------------------------
(* Shutdown *)

\* some handler has not returned yet
InFlight == \E w \in Workers : wk[w].pc \notin {"idle", "done"}

\* os.Exit ends every goroutine where it stands
Killed(r) == IF r.pc \in {"idle", "done"} THEN r ELSE [r EXCEPT !.pc = "killed"]

\* setupGracefulShutdown, lines 163-167, gracefulShutdown, lines 180-186,
\* and HTTPServer.Stop up to the call of s.server.Shutdown(ctx): the signal
\* arrives and Shutdown closes the listener, upon which ListenAndServe
\* returns http.ErrServerClosed to main (part_000:149)
Signal ==
    /\ proc = "up"
    /\ Serving
    /\ sdPc = "wait"
    /\ sdPc' = "stop"
    /\ mainPc' = "returned"
    /\ UNCHANGED <<clock, cfgEnabled, cacheManager, gcStarted, db, wk, dbHandle, ret,
                   gcTick, gcLog, stopRes, proc, lg>>

\* HTTPServer.Stop returns, gracefulShutdown lines 186-190: nil once no
\* request is in flight; the context's error when the 30 seconds are over
\* first, or another error of Shutdown.  The error is logged.
Stop(err) ==
    /\ proc = "up"
    /\ sdPc = "stop"
    /\ ~err => ~InFlight
    /\ stopRes' = IF err THEN "error" ELSE "nil"
    /\ sdPc' = "close"
    /\ UNCHANGED <<clock, cfgEnabled, mainPc, cacheManager, gcStarted, db, wk, dbHandle,
                   ret, gcTick, gcLog, proc, lg>>

\* gracefulShutdown, lines 194-201: cacheManager.Close() when there is a
\* manager; its error is logged
ShutdownClose(closeErr) ==
    /\ proc = "up"
    /\ sdPc = "close"
    /\ dbHandle' = IF cacheManager # "nil" THEN CloseDB(dbHandle, closeErr).handle
                                           ELSE dbHandle
    /\ sdPc' = "exit"
    /\ UNCHANGED <<clock, cfgEnabled, mainPc, cacheManager, gcStarted, db, wk, ret,
                   gcTick, gcLog, stopRes, proc, lg>>

\* gracefulShutdown, lines 204-206, and setupGracefulShutdown, line 170:
\* logger.Sync(), then os.Exit(0)
ShutdownExit ==
    /\ proc = "up"
    /\ sdPc = "exit"
    /\ sdPc' = "done"
    /\ proc' = "exit0"
    /\ wk' = [w \in Workers |-> Killed(wk[w])]
    /\ gcStarted' = FALSE
    /\ UNCHANGED <<clock, cfgEnabled, mainPc, cacheManager, db, dbHandle, ret,
                   gcTick, gcLog, stopRes, lg>>

\* main, lines 149-151: httpServer.Start() has returned an error, which
\* http.ErrServerClosed is; logger.Fatal exits the process with status 1
MainFatal ==
    /\ proc = "up"
    /\ mainPc = "returned"
    /\ mainPc' = "fatal"
    /\ proc' = "exit1"
    /\ wk' = [w \in Workers |-> Killed(wk[w])]
    /\ gcStarted' = FALSE
    /\ UNCHANGED <<clock, cfgEnabled, cacheManager, db, dbHandle, ret,
                   gcTick, gcLog, sdPc, stopRes, lg>>

\* A store call made on a closed handle fails (badger.ErrDBClosed): the
\* steps of the handler and of the GC routine that call the store, with
\* the outcomes the handle allows
HandleLookup(w, viewErr) == (dbHandle = "closed" => viewErr) /\ Lookup(w, viewErr)
HandleGetDelete(w, ok)   == (dbHandle = "closed" => ~ok) /\ GetDelete(w, ok)
HandleSetCommit(w, ok)   == (dbHandle = "closed" => ~ok) /\ SetCommit(w, ok)
HandleGCRoutine(gcErr)   == (dbHandle = "closed" => gcErr = "error") /\ GCRoutine(gcErr)

\* the process from start to exit: main, one request at a time, the GC
\* routine and the shutdown
LifeNext ==
    \/ \E openOK \in BOOLEAN : Main(openOK)
    \/ Tick
    \/ GCTick
    \/ \E gcErr \in GCErrs : HandleGCRoutine(gcErr)
    \/ \E m \in Methods, r \in BOOLEAN, p \in Payloads : Begin(1, m, r, p)
    \/ \E e \in BOOLEAN : HandleLookup(1, e)
    \/ \E ok \in BOOLEAN : HandleGetDelete(1, ok)
    \/ \E e \in BOOLEAN, a \in UpstreamAnswers : Forward(1, e, a[1], a[2])
    \/ SetEntry(1)
    \/ \E ok \in BOOLEAN : HandleSetCommit(1, ok)
    \/ Signal
    \/ \E err \in BOOLEAN : Stop(err)
    \/ \E closeErr \in BOOLEAN : ShutdownClose(closeErr)
    \/ ShutdownExit
    \/ MainFatal

LifeSpec == Init /\ [][LifeNext]_vars

---------------------------------------------------------------------------
(* Package logger *)

\* every variable but lg
notLg == <<clock, cfgEnabled, mainPc, cacheManager, gcStarted, db, wk,
           dbHandle, ret, gcTick, gcLog, sdPc, stopRes, proc>>

\* sync.RWMutex: RLock goes through when no writer holds mu and none waits
\* for it
CanRLock(l) == l.writer = 0 /\ l.pending = {}

\* sync.RWMutex: Lock goes through when nobody holds mu, reading or writing
CanLock(l, g) == l.writer = 0 /\ l.readers = {}

\* init(), lines 215-224: with LOG_LEVEL set in the environment the
\* logger is initialized as the package loads (levelOK: the level parses)
LoggerPkgInit(envSet, levelOK) ==
    /\ ~lg.loaded
    /\ lg' = [lg EXCEPT !.loaded = TRUE,
                        !.globalLogger = IF envSet /\ levelOK THEN "zap" ELSE @,
                        !.initialized = IF envSet /\ levelOK THEN TRUE ELSE @]
    /\ UNCHANGED notLg

\* a goroutine calls GetLogger (lines 153-164; so do Debug, Info, Warn,
\* Error), InitLogger (lines 52-142) or Sync (lines 167-175)
LoggerCall(g, fn) ==
    /\ lg.loaded
    /\ lg.pc[g] = "idle"
    /\ lg' = [lg EXCEPT !.fn[g] = fn,
                        !.pc[g] = IF fn = "InitLogger" THEN "lock" ELSE "rlock"]
    /\ UNCHANGED notLg

\* GetLogger, lines 154-161, and Sync, lines 168-169: mu.RLock(), then the
\* test of globalLogger.  GetLogger goes on into InitDefaultLogger when it
\* finds nil, its read lock still held.
LoggerRLock(g) ==
    /\ lg.pc[g] = "rlock"
    /\ CanRLock(lg)
    /\ lg' = [lg EXCEPT !.readers = @ \cup {g},
                        !.pc[g] = IF lg.fn[g] = "GetLogger" /\ lg.globalLogger = "nil"
                                    THEN "lock" ELSE "runlock"]
    /\ UNCHANGED notLg

\* InitLogger, line 53: mu.Lock() is called; the caller is now a waiting
\* writer
LoggerLockCall(g) ==
    /\ lg.pc[g] = "lock"
    /\ lg' = [lg EXCEPT !.pending = @ \cup {g}, !.pc[g] = "lockwait"]
    /\ UNCHANGED notLg

\* mu.Lock() returns
LoggerLock(g) ==
    /\ lg.pc[g] = "lockwait"
    /\ CanLock(lg, g)
    /\ lg' = [lg EXCEPT !.pending = @ \ {g}, !.writer = g, !.pc[g] = "init"]
    /\ UNCHANGED notLg

\* InitLogger, lines 54-141, under the write lock: a configuration that
\* does not parse returns an error and leaves the logger as it was; else
\* the new logger is installed.  The deferred mu.Unlock() runs.  Inside
\* GetLogger the configuration is the default one.
LoggerInitBody(g, cfgOK) ==
    /\ lg.pc[g] = "init"
    /\ lg.fn[g] = "GetLogger" => cfgOK
    /\ lg' = [lg EXCEPT !.writer = 0,
                        !.globalLogger = IF cfgOK THEN "zap" ELSE @,
                        !.initialized = IF cfgOK THEN TRUE ELSE @,
                        !.pc[g] = IF lg.fn[g] = "GetLogger" THEN "runlock" ELSE "idle"]
    /\ UNCHANGED notLg

\* GetLogger, line 163, and Sync: the deferred mu.RUnlock() runs and the
\* function returns
LoggerRUnlock(g) ==
    /\ lg.pc[g] = "runlock"
    /\ lg' = [lg EXCEPT !.readers = @ \ {g},
                        !.res[g] = IF lg.fn[g] = "GetLogger" THEN lg.globalLogger ELSE @,
                        !.pc[g] = "idle"]
    /\ UNCHANGED notLg

LoggerStep(g) ==
    \/ \E fn \in {"GetLogger", "InitLogger", "Sync"} : LoggerCall(g, fn)
    \/ LoggerRLock(g)
    \/ LoggerLockCall(g)
    \/ LoggerLock(g)
    \/ \E cfgOK \in BOOLEAN : LoggerInitBody(g, cfgOK)
    \/ LoggerRUnlock(g)

LoggerNext ==
    \/ \E envSet, levelOK \in BOOLEAN : LoggerPkgInit(envSet, levelOK)
    \/ \E g \in Callers : LoggerStep(g)

\* a goroutine that can take a step again and again does take it: the
\* scheduler runs every runnable goroutine, and sync.RWMutex starves
\* neither readers nor writers
LoggerFairness == \A g \in Callers : SF_vars(LoggerStep(g))

\* package logger under any callers
LoggerSpec == Init /\ [][LoggerNext]_vars /\ LoggerFairness

---------------------------------------------------------------------------
(* Requests that run to their end *)

\* the next step of the request that worker w handles: a store operation
\* that returns, or the upstream call that returns an answer or an error,
\* its 30 s timeout (cache.go:338) among the errors
HandlerStep(w) ==
    \/ \E e \in BOOLEAN : Lookup(w, e)
    \/ \E ok \in BOOLEAN : GetDelete(w, ok)
    \/ \E e \in BOOLEAN, a \in UpstreamAnswers : Forward(w, e, a[1], a[2])
    \/ SetEntry(w)
    \/ \E ok \in BOOLEAN : SetCommit(w, ok)

\* every handler goroutine is scheduled, the store operations it calls
\* return, and its upstream call returns or times out
HandlerFairness == \A w \in Workers : WF_vars(HandlerStep(w))

\* main, the clock, and one request after the other; a handler does not
\* wait for another request, of which it sees only what is in the store
ServeNext ==
    \/ \E openOK \in BOOLEAN : Main(openOK)
    \/ Tick
    \/ \E m \in Methods, r \in BOOLEAN, p \in Payloads : Begin(1, m, r, p)
    \/ \E e \in BOOLEAN : Lookup(1, e)
    \/ \E ok \in BOOLEAN : GetDelete(1, ok)
    \/ \E e \in BOOLEAN, a \in UpstreamAnswers : Forward(1, e, a[1], a[2])
    \/ SetEntry(1)
    \/ \E ok \in BOOLEAN : SetCommit(1, ok)

ServeSpec == Init /\ [][ServeNext]_vars /\ HandlerFairness

---------------------------------------------------------------------------
(* Vocabulary of the properties *)

\* the record under key k, decoded
StoredEntry(k) == UnmarshalEntry(db[k].val)

\* the deadline of an entry: its timestamp plus the retention, in ticks
Deadline(entry) == (entry.Timestamp + TTLSecs) * SubSec

\* an HTTP status of the success range
SuccessStatus(status) == status >= 200 /\ status <= 299

\* the body parses as the {code, msg} envelope
Parses(body) == ~JsonUnmarshalResult(body).err

\* the envelope's code
CodeOf(body) == JsonUnmarshalResult(body).Code

\* a response judged cacheable: success status, parseable envelope, code 0
Cacheable(status, body) == SuccessStatus(status) /\ Parses(body) /\ CodeOf(body) = 0

\* the worker's upstream call returned an answer (no transport error)
Answered(r) == r.up.called /\ ~r.up.err

\* what the client of a finished request was sent
Sent(status, body) == [wrote |-> TRUE, status |-> status, body |-> body]

\* the proxy's own error envelope with the given code, whatever its message
IsEnvelope(out, code) ==
    out.wrote /\ out.status = StatusOK /\ out.body.form = "envelope" /\ out.body.code = code

\* worker w takes the step that runs Get
LookupStep(w) == wk[w].pc = "lookup" /\ wk'[w].pc # "lookup"

\* Get would report key k not-found at time now
Unfresh(store, k, now) ==
    \/ ~store[k].present
    \/ ItemExpired(store[k], now)
    \/ EntryExpired(UnmarshalEntry(store[k].val), now)

---------------------------------------------------------------------------
(* C1 *)

\* C1: cache hit.  When a request with payload P is looked up while the
\* store holds an entry under fingerprint(P), the clock is before that
\* entry's deadline and the store read does not fail, the request ends in
\* that step with exactly the entry's status code and body sent to the
\* client and without an upstream call.
CacheHitServesStoredResponse ==
    [][\A w \in Workers :
          LET k == GenerateKey(wk[w].body)
          IN (/\ LookupStep(w)
              /\ wk'[w].getRes # "error"
              /\ db[k].present
              /\ clock < Deadline(StoredEntry(k)))
             => /\ wk'[w].pc = "done"
                /\ wk'[w].getRes = "hit"
                /\ wk'[w].out = Sent(StoredEntry(k).StatusCode, StoredEntry(k).ResponseBody)
                /\ ~wk'[w].up.called]_vars

\* a request was served from the store: it is finished, it has sent the
\* stored entry of its payload, and it made no upstream call
CacheHitWitness ==
    \E w \in Workers :
        /\ wk[w].pc = "done" /\ wk[w].getRes = "hit" /\ ~wk[w].up.called
        /\ db[wk[w].cacheKey].present
        /\ StoredEntry(wk[w].cacheKey).RequestBody = wk[w].body
        /\ wk[w].out = Sent(StoredEntry(wk[w].cacheKey).StatusCode,
                            StoredEntry(wk[w].cacheKey).ResponseBody)

---------------------------------------------------------------------------
(* C2 *)

\* C2: failures are not cached.  The step in which the upstream call
\* returns, without transport error, a non-zero code, an unparseable body
\* or a non-success status ends the request with no Set called and the
\* store unchanged; a key that Get reports not-found stays not-found over
\* every step that does not write it; and a Get that reports not-found
\* sends the request on to upstream.  So the repeat of such a request
\* misses and calls upstream again.
FailuresNotCached ==
    [][/\ \A w \in Workers :
            (/\ wk[w].pc = "forward"
             /\ Answered(wk'[w])
             /\ ~Cacheable(wk'[w].up.status, wk'[w].up.body))
            => /\ wk'[w].pc = "done"
               /\ "Set" \notin wk'[w].ops
               /\ db' = db
       /\ \A k \in Keys :
            (Unfresh(db, k, clock) /\ db'[k] = db[k]) => Unfresh(db', k, clock')
       /\ \A w \in Workers :
            (LookupStep(w) /\ Unfresh(db, GenerateKey(wk[w].body), clock))
            => /\ wk'[w].pc \in {"forward", "getDelete"}
               /\ ~wk'[w].up.called]_vars

\* a request missed, got a business error from upstream with status 200 and
\* finished; the store still has nothing fresh for it, and the other worker
\* is at its own upstream call for the same payload after a miss
FailuresNotCachedWitness ==
    \E w \in Workers, v \in Workers :
        /\ w # v
        /\ wk[w].pc = "done" /\ wk[w].getRes = "miss" /\ Answered(wk[w])
        /\ wk[w].up.status = StatusOK /\ CodeOf(wk[w].up.body) # 0
        /\ Unfresh(db, wk[w].cacheKey, clock)
        /\ wk[v].pc = "forward" /\ wk[v].getRes = "miss" /\ wk[v].body = wk[w].body

---------------------------------------------------------------------------
(* C3 *)

\* C3: store invariant.  The store starts empty, and every step that puts
\* a record under a key K, or changes the record there, is the Set of a
\* request whose payload has fingerprint K and whose own upstream call
\* returned a cacheable answer; the record holds that call's payload, body
\* and status code.
StoreHoldsCacheableAnswers ==
    /\ (mainPc = "boot" => \A k \in Keys : ~db[k].present)
    /\ [][\A k \in Keys :
            (db'[k] # db[k] /\ db'[k].present)
            => \E w \in Workers :
                 /\ GenerateKey(wk[w].body) = k
                 /\ Answered(wk[w])
                 /\ Cacheable(wk[w].up.status, wk[w].up.body)
                 /\ UnmarshalEntry(db'[k].val).RequestBody = wk[w].body
                 /\ UnmarshalEntry(db'[k].val).ResponseBody = wk[w].up.body
                 /\ UnmarshalEntry(db'[k].val).StatusCode = wk[w].up.status]_vars

\* the store holds a record, written from a finished request's answer
StoreWitness ==
    \E w \in Workers :
        /\ wk[w].pc = "done" /\ wk[w].setRes = "ok"
        /\ db[wk[w].cacheKey].present
        /\ StoredEntry(wk[w].cacheKey).ResponseBody = wk[w].up.body

---------------------------------------------------------------------------
(* C4 *)

\* C4 as claimed: with a cache manager installed, a request that missed and
\* got from upstream a success-range status with a parseable envelope of
\* code 0 has called Set by the time it finishes.
SuccessRangeAnswersAreSet ==
    \A w \in Workers :
        (/\ wk[w].pc = "done"
         /\ cacheManager # "nil"
         /\ Answered(wk[w])
         /\ Cacheable(wk[w].up.status, wk[w].up.body))
        => "Set" \in wk[w].ops

\* C4, amended: with a cache manager installed, a request whose upstream
\* call answered with status exactly 200 and a parseable envelope of code 0
\* is at the call of Set, inside it, or finished after it returned; the key
\* is the fingerprint of its payload and the response and status code handed
\* to Set are upstream's.
StatusOKAnswersAreSet ==
    \A w \in Workers :
        (/\ cacheManager # "nil"
         /\ Answered(wk[w])
         /\ wk[w].up.status = StatusOK
         /\ Parses(wk[w].up.body)
         /\ CodeOf(wk[w].up.body) = 0)
        => /\ wk[w].cacheKey = GenerateKey(wk[w].body)
           /\ wk[w].response = wk[w].up.body
           /\ wk[w].statusCode = wk[w].up.status
           /\ \/ wk[w].pc = "set"
              \/ wk[w].pc = "setCommit" /\ "Set" \in wk[w].ops
              \/ wk[w].pc = "done" /\ "Set" \in wk[w].ops /\ wk[w].setRes \in {"ok", "failed"}

\* a request missed, upstream answered 200 with code 0, Set was called and
\* its record is in the store
StatusOKAnswerSetWitness ==
    \E w \in Workers :
        /\ wk[w].pc = "done" /\ wk[w].getRes = "miss" /\ wk[w].setRes = "ok"
        /\ wk[w].up.status = StatusOK /\ CodeOf(wk[w].up.body) = 0
        /\ db[GenerateKey(wk[w].body)].present
        /\ StoredEntry(GenerateKey(wk[w].body)).ResponseBody = wk[w].up.body

---------------------------------------------------------------------------
(* C5 *)

\* C5 as claimed: a Get at or after the deadline (timestamp + retention) of
\* the record under its key reports not-found.
NotFoundFromDeadlineOn ==
    [][\A w \in Workers :
          LET k == GenerateKey(wk[w].body)
          IN (/\ LookupStep(w)
              /\ db[k].present
              /\ clock >= Deadline(StoredEntry(k)))
             => wk'[w].getRes \in {"miss", "expired", "error"}]_vars

\* C5, amended: a Get strictly after the deadline of the record under its
\* key reports not-found, whether or not the engine still serves the record.
NotFoundPastDeadline ==
    [][\A w \in Workers :
          LET k == GenerateKey(wk[w].body)
          IN (/\ LookupStep(w)
              /\ db[k].present
              /\ clock > Deadline(StoredEntry(k)))
             => /\ wk'[w].getRes \in {"miss", "expired", "error"}
                /\ wk'[w].pc \in {"forward", "getDelete"}]_vars

\* a Get past the deadline has reported not-found for a record that is
\* still in the store and that the engine has not expired
NotFoundPastDeadlineWitness ==
    \E w \in Workers :
        /\ wk[w].pc = "getDelete" /\ wk[w].getRes = "expired"
        /\ db[wk[w].cacheKey].present
        /\ ~ItemExpired(db[wk[w].cacheKey], clock)
        /\ clock > Deadline(StoredEntry(wk[w].cacheKey))

---------------------------------------------------------------------------
(* C6 *)

\* C6: verbatim pass-through.  A request whose upstream call returned
\* without transport error finishes with exactly upstream's status code and
\* body sent, cacheable or not; a request that Get serves finishes with
\* the stored entry's status code and body sent.
VerbatimPassThrough ==
    [][\A w \in Workers :
          /\ (wk'[w].pc = "done" /\ Answered(wk'[w]))
             => wk'[w].out = Sent(wk'[w].up.status, wk'[w].up.body)
          /\ (LookupStep(w) /\ wk'[w].getRes = "hit")
             => /\ wk'[w].pc = "done"
                /\ wk'[w].out = Sent(StoredEntry(GenerateKey(wk[w].body)).StatusCode,
                                     StoredEntry(GenerateKey(wk[w].body)).ResponseBody)]_vars

\* a request was sent upstream's non-success status and its body as they came
VerbatimWitness ==
    \E w \in Workers :
        /\ wk[w].pc = "done" /\ Answered(wk[w])
        /\ ~SuccessStatus(wk[w].up.status)
        /\ wk[w].out = Sent(wk[w].up.status, wk[w].up.body)

---------------------------------------------------------------------------
(* C7 *)

\* C7: proxy-originated errors.  A finished request with a non-POST method
\* was sent status 200 and the envelope with code 405; one whose body could
\* not be read, status 200 and code 400; one whose upstream call failed at
\* transport level, status 200 and code 500.  A status other than 200 is
\* sent only after a cache hit or an upstream answer.
ProxyErrorsUseEnvelope ==
    \A w \in Workers :
        wk[w].pc = "done" =>
            /\ wk[w].method # "POST" => IsEnvelope(wk[w].out, StatusMethodNotAllowed)
            /\ (wk[w].method = "POST" /\ ~wk[w].readOK)
                  => IsEnvelope(wk[w].out, StatusBadRequest)
            /\ (wk[w].up.called /\ wk[w].up.err)
                  => IsEnvelope(wk[w].out, StatusInternalServerError)
            /\ wk[w].out.status # StatusOK => (wk[w].getRes = "hit" \/ Answered(wk[w]))

\* one request was refused for its method, another lost its upstream call
ProxyErrorsWitness ==
    \E w \in Workers, v \in Workers :
        /\ wk[w].pc = "done" /\ wk[w].method = "GET"
        /\ IsEnvelope(wk[w].out, StatusMethodNotAllowed)
        /\ wk[v].pc = "done" /\ wk[v].up.err
        /\ IsEnvelope(wk[v].out, StatusInternalServerError)

---------------------------------------------------------------------------
(* C8 *)

\* C8: an upstream transport failure is never cached.  The step in which
\* the upstream call fails ends the request with the error envelope of code
\* 500, with no Set called, and leaves the store as it was.
TransportFailureNotCached ==
    [][\A w \in Workers :
          (wk[w].pc = "forward" /\ wk'[w].up.called /\ wk'[w].up.err)
          => /\ wk'[w].pc = "done"
             /\ IsEnvelope(wk'[w].out, StatusInternalServerError)
             /\ "Set" \notin wk'[w].ops
             /\ db' = db]_vars

\* with the cache installed, a request missed, its upstream call failed,
\* and the store has no record for it
TransportFailureWitness ==
    \E w \in Workers :
        /\ cacheManager = "cm"
        /\ wk[w].pc = "done" /\ wk[w].getRes = "miss" /\ wk[w].up.err
        /\ ~db[wk[w].cacheKey].present

---------------------------------------------------------------------------
(* C9 *)

\* C9: caching disabled.  When cfg.Cache.Enabled is false no cache manager
\* is installed, no request computes a key or calls Get, Set or Delete, the
\* store stays empty, and every finished POST with a readable body has
\* called upstream.
DisabledCacheAlwaysForwards ==
    ~cfgEnabled =>
        /\ cacheManager = "nil"
        /\ \A k \in Keys : ~db[k].present
        /\ \A w \in Workers :
             /\ wk[w].ops = {}
             /\ wk[w].getRes = "none" /\ wk[w].setRes = "none"
             /\ wk[w].pc \in {"idle", "forward", "done"}
             /\ (wk[w].pc = "done" /\ wk[w].method = "POST" /\ wk[w].readOK)
                   => wk[w].up.called

\* with caching disabled the same payload went upstream twice, the second
\* time after a cacheable answer to the first
DisabledCacheWitness ==
    \E w \in Workers, v \in Workers :
        /\ w # v /\ ~cfgEnabled
        /\ wk[w].pc = "done" /\ Answered(wk[w])
        /\ wk[w].up.status = StatusOK /\ CodeOf(wk[w].up.body) = 0
        /\ wk[v].pc = "done" /\ Answered(wk[v]) /\ wk[v].body = wk[w].body

---------------------------------------------------------------------------
(* C10 *)

\* C10: a cache write failure never affects the client.  A finished request
\* whose Set returned, with an error or without, was sent exactly upstream's
\* status code and body: the same response in both cases.
SetFailureInvisible ==
    \A w \in Workers :
        (wk[w].pc = "done" /\ wk[w].setRes \in {"ok", "failed"})
        => /\ Answered(wk[w])
           /\ wk[w].out = Sent(wk[w].up.status, wk[w].up.body)

\* Set failed, nothing was stored, and the client has upstream's answer
SetFailureWitness ==
    \E w \in Workers :
        /\ wk[w].pc = "done" /\ wk[w].setRes = "failed"
        /\ ~db[wk[w].cacheKey].present
        /\ wk[w].out = Sent(StatusOK, wk[w].up.body)
        /\ CodeOf(wk[w].up.body) = 0

---------------------------------------------------------------------------
(* C11 *)

\* worker w takes the step that ends its request
FinishStep(w) == wk[w].pc \notin {"idle", "done"} /\ wk'[w].pc = "done"

\* C11: a read failure is a miss.  When Get fails with a store or decoding
\* error it reports not-found: the handler writes nothing and goes on to the
\* upstream call, the store untouched; from there the request runs as after
\* an ordinary miss and ends with upstream's answer sent verbatim (or, when
\* the upstream call itself fails, with the 500 envelope of that failure).
ReadFailureIsAMiss ==
    [][\A w \in Workers :
         /\ (LookupStep(w) /\ wk'[w].getRes = "error")
            => /\ wk'[w].pc = "forward"
               /\ wk'[w].out = NoOut
               /\ ~wk'[w].isFromCache
               /\ db' = db
         /\ (wk[w].pc = "forward" /\ wk[w].getRes \in {"error", "miss"} /\ wk'[w].pc # "forward")
            => /\ wk'[w].up.called
               /\ wk'[w].pc = (IF wk'[w].up.err \/ ~ShouldCache(wk'[w].up.status, wk'[w].up.body)
                                 THEN "done" ELSE "set")
         /\ (FinishStep(w) /\ wk[w].getRes = "error")
            => /\ wk'[w].up.called
               /\ Answered(wk'[w]) => wk'[w].out = Sent(wk'[w].up.status, wk'[w].up.body)
               /\ wk'[w].up.err => IsEnvelope(wk'[w].out, StatusInternalServerError)
       ]_vars

\* a request whose read failed although the store held a fresh entry for
\* its key: it was served upstream's answer, not the stored one
ReadFailureWitness ==
    \E w \in Workers :
        /\ wk[w].pc = "done" /\ wk[w].getRes = "error"
        /\ Answered(wk[w])
        /\ wk[w].out = Sent(wk[w].up.status, wk[w].up.body)
        /\ ~Unfresh(db, wk[w].cacheKey, clock)
        /\ StoredEntry(wk[w].cacheKey).ResponseBody # wk[w].up.body

---------------------------------------------------------------------------
(* C12 *)

\* a call of the CacheManager method op returns
Returns(op) == ret'.op = op /\ ret' # ret

\* C12: Close is idempotent and nil-safe.  Called on a store that is already
\* closed, or on one whose handle was never opened, Close returns no error
\* and changes nothing: the handle and the records stay as they were.
CloseIdempotentNilSafe ==
    [][(Returns("Close") /\ dbHandle \in {"nil", "closed"})
         => /\ ret'.err = "nil"
            /\ dbHandle' = dbHandle
            /\ db' = db
      ]_vars

\* Close has returned from a call on a closed store that holds a record
CloseAgainWitness ==
    /\ ret.op = "Close" /\ ret.handle = "closed" /\ ret.err = "nil"
    /\ dbHandle = "closed"
    /\ \E k \in Keys : db[k].present

---------------------------------------------------------------------------
(* C13 *)

\* what the engine shows of a store at time now: the records whose
\* ExpiresAt is not reached
Shown(store, now) ==
    [k \in Keys |-> IF store[k].present /\ ~ItemExpired(store[k], now) THEN store[k] ELSE NoItem]

\* C13: Delete is idempotent.  Unless the transaction itself fails, Delete
\* returns no error; on a key the store does not show it leaves the store
\* as it was, on a key it shows it removes that key's record, and in both
\* cases every other key keeps its record.
DeleteIdempotent ==
    [][(Returns("Delete") /\ ret'.dbErr # "error")
         => LET k == ret'.key
            IN /\ ret'.err = "nil"
               /\ Shown(db', clock')[k] = NoItem
               /\ Shown(db, clock)[k] = NoItem => Shown(db', clock') = Shown(db, clock)
               /\ \A j \in Keys \ {k} : db'[j] = db[j]
      ]_vars

\* Delete has returned without error from a key that was not there, next
\* to another key that is
DeleteAbsentWitness ==
    /\ ret.op = "Delete" /\ ret.dbErr = "ErrKeyNotFound" /\ ret.err = "nil"
    /\ ~db[ret.key].present
    /\ \E j \in Keys \ {ret.key} : Shown(db, clock)[j] # NoItem

---------------------------------------------------------------------------
(* C14 *)

\* C14: the fingerprint is a function of the raw request bytes and of
\* nothing else.  Whatever the store holds, whenever and by whichever handler
\* it was computed, the key of a request is the digest of its body; two
\* requests have the same key exactly when their bodies are the same bytes,
\* also when the bodies read as the same JSON object.
FingerprintContentOnly ==
    \A w, v \in Workers :
        (wk[w].cacheKey # << >> /\ wk[v].cacheKey # << >>)
        => /\ wk[w].cacheKey = GenerateKey(wk[w].body)
           /\ (wk[w].body = wk[v].body) <=> (wk[w].cacheKey = wk[v].cacheKey)

\* two requests whose bodies differ in bytes only, one served from the
\* store and one not: their keys differ
FingerprintWitness ==
    \E w, v \in Workers :
        /\ wk[w].cacheKey # << >> /\ wk[v].cacheKey # << >>
        /\ wk[w].body # wk[v].body
        /\ Canonical(wk[w].body) = Canonical(wk[v].body)
        /\ wk[w].cacheKey # wk[v].cacheKey
        /\ wk[w].getRes = "hit" /\ wk[v].getRes = "miss"

---------------------------------------------------------------------------
(* C15 *)

\* worker w's Set commits
CommitStep(w) == wk[w].pc = "setCommit" /\ wk'[w].setRes = "ok"

\* C15: no single flight, the last writer wins.  A Set that commits puts
\* the answer of its own request under the key, whatever another request
\* had put there; a record changes by nothing but the commit of a Set or the
\* Delete of a Get for its key; and every request that got an answer from
\* upstream sends this answer to its client.  So of two requests with one
\* key that both miss, the store keeps the entry of the one whose Set
\* commits last.
LastWriterWins ==
    [][/\ \A w \in Workers :
            /\ CommitStep(w)
               => /\ db'[wk[w].cacheKey].present
                  /\ UnmarshalEntry(db'[wk[w].cacheKey].val).ResponseBody = wk'[w].up.body
                  /\ UnmarshalEntry(db'[wk[w].cacheKey].val).StatusCode = wk'[w].up.status
                  /\ UnmarshalEntry(db'[wk[w].cacheKey].val).RequestBody = wk[w].body
            /\ (FinishStep(w) /\ Answered(wk'[w]))
               => wk'[w].out = Sent(wk'[w].up.status, wk'[w].up.body)
       /\ \A k \in Keys :
            db'[k] # db[k]
            => \E w \in Workers :
                 /\ wk[w].cacheKey = k
                 /\ \/ CommitStep(w)
                    \/ wk[w].pc = "getDelete" /\ db'[k] = NoItem
      ]_vars

\* two requests with one key have both missed, both called upstream, got
\* different cacheable answers and both stored them; no record can have
\* expired yet, so the two ran side by side.  The store holds the answer
\* of one, and each client has the answer of its own call.
BothMissWitness ==
    \E w, v \in Workers :
        /\ w # v /\ clock = 0
        /\ wk[w].pc = "done" /\ wk[v].pc = "done"
        /\ wk[w].cacheKey = wk[v].cacheKey
        /\ wk[w].getRes = "miss" /\ wk[v].getRes = "miss"
        /\ wk[w].setRes = "ok" /\ wk[v].setRes = "ok"
        /\ wk[w].up.body # wk[v].up.body
        /\ StoredEntry(wk[w].cacheKey).ResponseBody = wk[w].up.body
        /\ wk[w].out = Sent(StatusOK, wk[w].up.body)
        /\ wk[v].out = Sent(StatusOK, wk[v].up.body)

---------------------------------------------------------------------------
(* C16 *)

\* C16: a failure to open the store is fatal.  After the fatal exit no
\* manager is installed, no store handle is open, the GC routine was not
\* started and no request was ever accepted; and whenever the listener
\* serves with caching enabled, the manager is installed on an opened store
\* and the GC routine runs.
OpenFailureIsFatal ==
    /\ mainPc = "fatal"
       => /\ cfgEnabled
          /\ cacheManager = "nil" /\ dbHandle = "nil" /\ ~gcStarted
          /\ \A w \in Workers : wk[w] = IdleWorker
    /\ (Serving /\ cfgEnabled)
       => cacheManager = "cm" /\ dbHandle = "open" /\ gcStarted
    /\ (\E w \in Workers : wk[w] # IdleWorker) => Serving

\* the process has exited on the open failure
OpenFailureWitness ==
    /\ mainPc = "fatal" /\ cfgEnabled
    /\ cacheManager = "nil" /\ ~gcStarted

---------------------------------------------------------------------------
(* C17 *)

\* the GC routine takes a tick from its channel and runs RunGC
GCStep == gcTick /\ ~gcTick'

\* C17: the GC routine never stops on failure.  Once started it stays
\* started; every tick that reaches its channel is answered by a call of
\* RunGC, whether the call before returned nil, found nothing to rewrite,
\* failed, or there was none; and a call of RunGC, whatever it returns,
\* leaves every request and what the store shows as they were.
GCNeverStops ==
    /\ [][/\ gcStarted => gcStarted'
          /\ GCStep => /\ wk' = wk
                       /\ Shown(db', clock') = Shown(db, clock)
                       /\ gcLog'[1] = gcLog[2]
                       /\ gcLog'[2] \in GCErrs
         ]_vars
    /\ \A e \in GCErrs \cup {"none"} :
         (gcStarted /\ gcTick /\ gcLog[2] = e) ~> (gcStarted /\ ~gcTick /\ gcLog[1] = e)

\* RunGC has failed twice in a row, the next tick is waiting, and a
\* request that ran meanwhile has upstream's answer
GCAfterFailureWitness ==
    /\ gcStarted /\ gcTick
    /\ gcLog = <<"error", "error">>
    /\ wk[1].pc = "done" /\ Answered(wk[1])
    /\ wk[1].out = Sent(wk[1].up.status, wk[1].up.body)

---------------------------------------------------------------------------
(* C18 *)

\* C18: Set overwrites wholesale.  Set stamps the entry it builds with the
\* time of the call; once it has returned without error, the store shows
\* under the key the serialized form of this entry and nothing of what was
\* there before, and a Get of the key that comes next, before the entry's
\* deadline and without a read error, returns found with exactly this
\* entry: request body, response body, status code and timestamp.
SetOverwritesWholesale ==
    [][/\ Returns("Set")
          => /\ ret'.entry.Timestamp = Unix(clock)
             /\ ret'.err = "nil"
                => Shown(db', clock')[ret'.key] =
                     [present |-> TRUE,
                      val |-> MarshalEntry(ret'.entry.RequestBody, ret'.entry.ResponseBody,
                                           ret'.entry.StatusCode, ret'.entry.Timestamp),
                      expiresAt |-> WithTTL(clock')]
       /\ (/\ Returns("Get") /\ ret'.key = ret.key /\ ret'.dbErr = "nil"
           /\ ret.op = "Set" /\ ret.err = "nil"
           /\ clock < Deadline(ret.entry))
          => /\ ret'.found
             /\ ret'.entry = ret.entry
             /\ db' = db
      ]_vars

\* Set has returned without error from a key that already held a record;
\* the store shows the new entry, stamped in the second of the call
SetOverwriteWitness ==
    /\ ret.op = "Set" /\ ret.err = "nil" /\ ret.found
    /\ StoredEntry(ret.key) = ret.entry
    /\ ret.entry.Timestamp = 1
    /\ ret.entry.ResponseBody.data = 2
    /\ clock < Deadline(ret.entry)

---------------------------------------------------------------------------
(* C19 *)

\* worker w's handler is entered with a request that is no POST or whose
\* body cannot be read
RejectStep(w) ==
    /\ wk[w].pc \in {"idle", "done"}
    /\ wk'[w] # wk[w]
    /\ wk'[w].method # "POST" \/ ~wk'[w].readOK

\* C19: client-input errors have no side effects.  A request with the
\* wrong method or an unreadable body ends in the step that rejects it, with
\* the 405 or the 400 envelope: no key was computed, no Get, Set or Delete
\* ran, upstream was not called, and the store is as it was.  No request
\* that is under way is one that was rejected.
InputErrorsStopThere ==
    [][\A w \in Workers :
         /\ RejectStep(w)
            => /\ wk'[w].pc = "done"
               /\ wk'[w].cacheKey = << >>
               /\ wk'[w].ops = {}
               /\ wk'[w].getRes = "none" /\ wk'[w].setRes = "none"
               /\ ~wk'[w].up.called
               /\ IsEnvelope(wk'[w].out, IF wk'[w].method # "POST"
                                           THEN StatusMethodNotAllowed
                                           ELSE StatusBadRequest)
               /\ db' = db
         /\ wk[w].pc \notin {"idle", "done"}
            => wk[w].method = "POST" /\ wk[w].readOK
      ]_vars

\* a POST whose body could not be read was answered with the 400 envelope
\* while the store holds a record and the other worker's request is under way
InputErrorWitness ==
    \E w, v \in Workers :
        /\ wk[w].pc = "done" /\ wk[w].method = "POST" /\ ~wk[w].readOK
        /\ IsEnvelope(wk[w].out, StatusBadRequest)
        /\ wk[w].ops = {} /\ ~wk[w].up.called
        /\ wk[v].pc = "forward"
        /\ \E k \in Keys : db[k].present

---------------------------------------------------------------------------
(* C20 *)

\* C20: Get deletes only what it finds expired.  On a key the store does
\* not show, Get returns not-found and changes nothing.  On a key whose
\* entry it reads with now - timestamp <= ttl, it returns this entry and
\* changes nothing.  On a key whose entry it reads with now - timestamp >
\* ttl, it returns not-found and calls Delete for the key, and when this
\* Delete commits the key has no record.  No call of Get changes the record
\* of another key.
GetDeletesOnlyExpired ==
    [][Returns("Get")
         => LET k     == ret'.key
                item  == Shown(db, clock)[k]
                entry == UnmarshalEntry(item.val)
                read  == item # NoItem /\ ret'.dbErr # "error"
            IN /\ item = NoItem
                  => ~ret'.found /\ ret'.ops = {} /\ db' = db
               /\ (read /\ ~EntryExpired(entry, clock))
                  => /\ ret'.found /\ ret'.entry = entry
                     /\ ret'.ops = {} /\ db' = db
               /\ (item # NoItem /\ EntryExpired(entry, clock) /\ ret'.ops # {})
                  => /\ ~ret'.found /\ ret'.ops = {"Delete"}
                     /\ ret'.dbErr = "nil" => db'[k] = NoItem
                     /\ ret'.dbErr # "nil" => db' = db
               /\ read => (ret'.ops # {} <=> EntryExpired(entry, clock))
               /\ ~ret'.found => ret'.entry = NoEntry
               /\ \A j \in Keys \ {k} : db'[j] = db[j]
      ]_vars

\* Get has found a key's entry expired and deleted it, next to another key
\* whose record is still shown
GetExpiredWitness ==
    /\ ret.op = "Get" /\ ~ret.found
    /\ ret.ops = {"Delete"} /\ ret.dbErr = "nil"
    /\ db[ret.key] = NoItem
    /\ \E j \in Keys \ {ret.key} : Shown(db, clock)[j] # NoItem

---------------------------------------------------------------------------
(* C27 *)

\* C27: lazy logger initialization completes.  Every call of GetLogger
\* returns, and it returns the logger: made while globalLogger is nil, the
\* call initializes the logger with the default configuration and does not
\* wait forever for the logger's mutex.
LazyInitCompletes ==
    \A g \in Callers :
        (lg.fn[g] = "GetLogger" /\ lg.pc[g] = "rlock")
        ~> (lg.pc[g] = "idle" /\ lg.res[g] = "zap")


\* ---------------------------------------------------------------------
\* C22  shutdown ordering
\* ---------------------------------------------------------------------

\* C22: shutdown ordering.  The store is never closed before
\* HTTPServer.Stop has returned, and a process with a cache manager that
\* has exited after a termination signal had Stop return, with or without
\* an error, and closed the store before it exited.
ShutdownOrdering ==
    /\ dbHandle = "closed" => stopRes # "none"
    /\ (proc # "up" /\ sdPc # "wait" /\ cacheManager # "nil") =>
           (stopRes # "none" /\ dbHandle = "closed")

\* ---------------------------------------------------------------------
\* C23  no use after close
\* ---------------------------------------------------------------------

\* worker w takes a step that calls Get, Delete or Set on the store
StoreCallStep(w) ==
    /\ wk[w].pc \in {"lookup", "getDelete", "setCommit"}
    /\ wk'[w].pc \notin {wk[w].pc, "killed"}

\* C23: no use after close.  Once Close has been called on the store, no
\* step of a request calls Get, Delete or Set on it and the GC routine
\* does not call RunGC on it.
NoUseAfterClose ==
    [][dbHandle = "closed" => ~(GCStep \/ \E w \in Workers : StoreCallStep(w))]_vars


\* ---------------------------------------------------------------------
\* C24  the expiry delete of Get and a concurrent Set
\* ---------------------------------------------------------------------

\* worker w takes the step in which the Delete that Get issued commits
ExpiryDeleteStep(w) ==
    /\ wk[w].pc = "getDelete"
    /\ wk'[w].pc = "forward"
    /\ db'[wk[w].cacheKey] # db[wk[w].cacheKey]

\* C24: expiry cleanup never destroys a fresh entry.  Whenever the Delete
\* that Get issued for an expired entry removes a record, the record it
\* removes is one that Get would report not-found; an entry that is
\* still fresh at that moment is left in place.
ExpiryDeleteSparesFresh ==
    [][\A w \in Workers :
          ExpiryDeleteStep(w) => Unfresh(db, wk[w].cacheKey, clock)]_vars


\* ---------------------------------------------------------------------
\* C25  a cache hit is read-only
\* ---------------------------------------------------------------------

\* C25: a cache hit is read-only.  The step that serves a request from the
\* store leaves the store as it was, so the entry keeps its timestamp and
\* its deadline, and the request ends there without a Set and without an
\* upstream call; a request that is looked up after the deadline of the
\* entry under its key is not served from the store but goes on to the
\* upstream call, directly or after Get's Delete.
CacheHitReadOnly ==
    [][\A w \in Workers :
          LET k == GenerateKey(wk[w].body)
          IN LookupStep(w) =>
               /\ wk'[w].getRes = "hit" =>
                    /\ db' = db
                    /\ Deadline(UnmarshalEntry(db'[k].val)) = Deadline(StoredEntry(k))
                    /\ wk'[w].pc = "done"
                    /\ "Set" \notin wk'[w].ops
                    /\ wk'[w].setRes = "none"
                    /\ ~wk'[w].up.called
               /\ (db[k].present /\ clock > Deadline(StoredEntry(k))) =>
                    /\ wk'[w].getRes # "hit"
                    /\ wk'[w].pc \in {"forward", "getDelete"}
                    /\ wk'[w].out = NoOut]_vars

\* both requests have been served the same entry from the store, in a
\* later second than the one the entry was written in, and the entry
\* still carries the timestamp of its write
CacheHitReadOnlyWitness ==
    /\ \A w \in Workers :
          /\ wk[w].pc = "done" /\ wk[w].getRes = "hit"
          /\ wk[w].cacheKey = GenerateKey("p1")
          /\ "Set" \notin wk[w].ops
    /\ db[GenerateKey("p1")].present
    /\ StoredEntry(GenerateKey("p1")).Timestamp < Unix(clock)
    /\ ~Unfresh(db, GenerateKey("p1"), clock)


\* ---------------------------------------------------------------------
\* C26  response isolation
\* ---------------------------------------------------------------------

\* worker w takes the step that writes the response of its request
RespondStep(w) == wk'[w].out.wrote /\ wk'[w].out # wk[w].out

\* the response is an error envelope that the handler made for this
\* request: nothing was served from the store and no upstream answer is held
OwnEnvelope(r) ==
    /\ r.out.status = StatusOK
    /\ r.out.body.form = "envelope"
    /\ r.out.body.code \in {StatusMethodNotAllowed, StatusBadRequest, StatusInternalServerError}
    /\ ~r.isFromCache
    /\ ~Answered(r)

\* the response is the answer to the upstream call this request made
OwnUpstreamAnswer(r) ==
    /\ Answered(r)
    /\ ~r.isFromCache
    /\ r.out = Sent(r.up.status, r.up.body)

\* the response is the entry that the store held under the fingerprint of
\* payload p, an entry that was written for p
EntryOfPayload(r, store, p) ==
    /\ r.isFromCache
    /\ r.cacheKey = GenerateKey(p)
    /\ store[GenerateKey(p)].present
    /\ UnmarshalEntry(store[GenerateKey(p)].val).RequestBody = p
    /\ r.out = Sent(UnmarshalEntry(store[GenerateKey(p)].val).StatusCode,
                    UnmarshalEntry(store[GenerateKey(p)].val).ResponseBody)

\* C26: response isolation.  A request keeps its payload P from start to
\* response, and in every interleaving of two requests what it sends is
\* its own error envelope, the answer to its own upstream call, or the
\* entry stored under fingerprint(P), written for P; never a response of
\* the other request's payload.
ResponseIsolation ==
    [][\A w \in Workers :
          /\ wk[w].pc \notin {"idle", "done"} => wk'[w].body = wk[w].body
          /\ RespondStep(w) =>
               \/ OwnEnvelope(wk'[w])
               \/ OwnUpstreamAnswer(wk'[w])
               \/ wk[w].pc = "lookup" /\ EntryOfPayload(wk'[w], db, wk[w].body)]_vars

\* two requests with different payloads have both been answered from the
\* store, each with the entry of its own payload, and the two entries
\* hold different responses
ResponseIsolationWitness ==
    /\ \A w \in Workers :
          /\ wk[w].pc = "done" /\ wk[w].getRes = "hit"
          /\ EntryOfPayload(wk[w], db, wk[w].body)
    /\ wk[1].body # wk[2].body
    /\ wk[1].out # wk[2].out


\* ---------------------------------------------------------------------
\* C21  every request ends with exactly one response
\* ---------------------------------------------------------------------

\* C21: every request terminates with exactly one response.  Every
\* request that was accepted comes to its end with a response written; a
\* response, once written, is not written again or changed for as long as
\* the request lasts; and an upstream call that fails, by timeout or
\* otherwise, ends the request in that step with the error envelope of
\* code 500, with no Set and the store untouched.
EveryRequestResponds ==
    /\ \A w \in Workers :
          (wk[w].pc \notin {"idle", "done"}) ~> (wk[w].pc = "done" /\ wk[w].out.wrote)
    /\ [][\A w \in Workers :
             /\ (wk[w].out.wrote /\ wk'[w].out # wk[w].out) => wk[w].pc = "done"
             /\ (wk'[w].pc = "done" /\ wk[w].pc # "done") =>
                    (~wk[w].out.wrote /\ wk'[w].out.wrote)
             /\ (wk[w].pc = "forward" /\ wk'[w].up.err) =>
                    /\ wk'[w].pc = "done"
                    /\ IsEnvelope(wk'[w].out, StatusInternalServerError)
                    /\ "Set" \notin wk'[w].ops
                    /\ db' = db]_vars

\* a request whose expired entry Get could not delete and whose upstream
\* call then timed out has ended with the error envelope
UpstreamTimeoutWitness ==
    \E w \in Workers :
        /\ wk[w].pc = "done"
        /\ wk[w].getRes = "expired"
        /\ wk[w].up.called /\ wk[w].up.err
        /\ IsEnvelope(wk[w].out, StatusInternalServerError)
        /\ db[wk[w].cacheKey].present

====
